---- MODULE Spec2Model ----
(***************************************************************************)
(* Model of src/main.py: the account (register / login) and student CRUD   *)
(* handlers over the two tables "users" and "students".                    *)
(*                                                                         *)
(* Every handler is a coroutine: it runs atomically from one `await` on    *)
(* the database session to the next, so each handler is split into one     *)
(* action per database round trip (the select, the commit, the refresh).   *)
(* Two request slots run concurrently.  The tables carry the constraints   *)
(* the ORM classes declare: an auto-assigned integer primary key and a     *)
(* unique username / e-mail column.  The account handlers and the student  *)
(* handlers share no state, so the properties of each are checked under    *)
(* the specification of its own table (SpecUsers, SpecStudents);           *)
(* validate_password is also checked on its own (SpecPassword).            *)
(***************************************************************************)
EXTENDS Integers, Sequences, FiniteSets

VARIABLES
    users,          \* rows of table "users":    [id, username, password]
    user_seq,       \* last auto-assigned users.id
    students,       \* rows of table "students": [id, name, age, address, email, subject, semester]
    student_seq,    \* last auto-assigned students.id
    pc,             \* per request slot: "idle", "commit", "refresh" or "done"
    req,            \* per request slot: the request being served
    loaded,         \* per request slot: the ORM object the handler holds ({} is None)
    resp,           \* per request slot: the HTTP response of the finished request
    password,       \* argument of the last validate_password call
    password_error  \* its return value

vars == <<users, user_seq, students, student_seq, pc, req, loaded, resp,
          password, password_error>>

userVars == <<users, user_seq>>
studentVars == <<students, student_seq>>
vpVars == <<password, password_error>>

(***************************************************************************)
(* Bounds of the model.                                                    *)
(***************************************************************************)
MaxId == 2          \* student ids handed out in one run
MaxPwLen == 8       \* longest candidate password handed to validate_password alone

Procs == 1..2

(***************************************************************************)
(* Characters.  A string is a sequence of one-character strings.           *)
(***************************************************************************)
Digit == {"0", "1", "2", "3", "4", "5", "6", "7", "8", "9"}
Upper == {"A", "B", "C", "D", "E", "F", "G", "H", "I", "J", "K", "L", "M",
          "N", "O", "P", "Q", "R", "S", "T", "U", "V", "W", "X", "Y", "Z"}
Lower == {"a", "b", "c", "d", "e", "f", "g", "h", "i", "j", "k", "l", "m",
          "n", "o", "p", "q", "r", "s", "t", "u", "v", "w", "x", "y", "z"}

\* \w : letters, digits and the underscore
Word == Digit \cup Upper \cup Lower \cup {"_"}

\* whether one character matches a character-class pattern
re_match(pattern, c) ==
    CASE pattern = "\\d" -> c \in Digit
      [] pattern = "[A-Z]" -> c \in Upper
      [] pattern = "[a-z]" -> c \in Lower
      [] pattern = "[\\W_]" -> c \notin Word \/ c = "_"

\* re.search(pattern, s) is not None
re_search(pattern, s) == \E i \in 1..Len(s) : re_match(pattern, s[i])

None == "None"

MinPasswordLength == 8

MsgLength == "Password must be at least 8 characters long."
MsgDigit == "Password must contain at least one digit."
MsgUpper == "Password must contain at least one uppercase letter."
MsgLower == "Password must contain at least one lowercase letter."
MsgSpecial == "Password must contain at least one special character."

validate_password_swapped(pw) ==
    IF ~re_search("\\d", pw) THEN MsgDigit
    ELSE IF Len(pw) < MinPasswordLength THEN MsgLength
    ELSE IF ~re_search("[A-Z]", pw) THEN MsgUpper
    ELSE IF ~re_search("[a-z]", pw) THEN MsgLower
    ELSE IF ~re_search("[\\W_]", pw) THEN MsgSpecial
    ELSE None

validate_password_no_length(pw) ==
    IF ~re_search("\\d", pw) THEN MsgDigit
    ELSE IF ~re_search("[A-Z]", pw) THEN MsgUpper
    ELSE IF ~re_search("[a-z]", pw) THEN MsgLower
    ELSE IF ~re_search("[\\W_]", pw) THEN MsgSpecial
    ELSE None

validate_password(pw) ==
    IF Len(pw) < MinPasswordLength THEN MsgLength
    ELSE IF ~re_search("\\d", pw) THEN MsgDigit
    ELSE IF ~re_search("[A-Z]", pw) THEN MsgUpper
    ELSE IF ~re_search("[a-z]", pw) THEN MsgLower
    ELSE IF ~re_search("[\\W_]", pw) THEN MsgSpecial
    ELSE None

(***************************************************************************)
(* Request inputs.                                                         *)
(***************************************************************************)
Usernames == {"alice", "bob"}

PwStrong == <<"A", "b", "c", "d", "e", "f", "1", "!">>
PwStrong2 == <<"Q", "w", "e", "r", "t", "y", "_", "9">>
PwShort == <<"A", "b", "1", "!">>
PwWrong == <<"w", "r", "o", "n", "g">>
PwNoSpecial == <<"A", "b", "c", "d", "e", "f", "g", "1">>

UserPasswords == {PwStrong, PwStrong2, PwShort, PwWrong, PwNoSpecial}

\* UserCreate
UserCreate == [username : Usernames, password : UserPasswords]

MinAge == 18
MaxAge == 30
MinSemester == 1
MaxSemester == 8

StudentA == [name |-> "Ann", age |-> 18, address |-> "1 Elm St",
             email |-> "ann@example.com", subject |-> "Math", semester |-> 1]
StudentB == [name |-> "Bob", age |-> 30, address |-> "2 Oak Ave",
             email |-> "bob@example.com", subject |-> "Physics", semester |-> 8]
StudentC == [name |-> "Cy", age |-> 25, address |-> "3 Fir Rd",
             email |-> "ann@example.com", subject |-> "Art", semester |-> 4]

WellFormedEmails == {"ann@example.com", "bob@example.com"}

\* request bodies of POST /students and PUT /students/{id}, malformed ones included
StudentBodies ==
    {StudentA, StudentB, StudentC,
     [StudentA EXCEPT !.age = 17],
     [StudentB EXCEPT !.age = 31, !.semester = 0],
     [StudentC EXCEPT !.semester = 9]}

StudentFields == {"name", "age", "address", "email", "subject", "semester"}

\* StudentCreate: the constraints pydantic enforces on a body
StudentCreateNoAge(s) ==
    /\ s.email \in WellFormedEmails
    /\ s.semester >= MinSemester /\ s.semester <= MaxSemester

StudentCreate(s) ==
    /\ s.age >= MinAge /\ s.age <= MaxAge
    /\ s.email \in WellFormedEmails
    /\ s.semester >= MinSemester /\ s.semester <= MaxSemester

StudentIds == 1..MaxId

NoUser == [username |-> "", password |-> <<>>]
NoStudent == [name |-> "", age |-> 0, address |-> "", email |-> "",
              subject |-> "", semester |-> 0]

Request(kind, user, id, body) ==
    [kind |-> kind, user |-> user, student_id |-> id, body |-> body]
NoRequest == Request("none", NoUser, 0, NoStudent)

Response(status, text, body) == [status |-> status, text |-> text, body |-> body]
NoResponse == Response(0, "", {})

\* HTTPException(status_code, detail)
HTTPException(status, detail) == Response(status, detail, {})
\* an exception no handler catches: the framework answers 500
InternalServerError == Response(500, "Internal Server Error", {})
\* a body that fails the request schema: the framework answers 422
RequestValidationError == Response(422, "validation error", {})

(***************************************************************************)
(* Initial state: both tables empty, no request in flight.                 *)
(***************************************************************************)
NotCalled == "not called"

InitTables ==
    /\ users = {}
    /\ user_seq = 0
    /\ students = {}
    /\ student_seq = 0
    /\ pc = [p \in Procs |-> "idle"]
    /\ req = [p \in Procs |-> NoRequest]
    /\ loaded = [p \in Procs |-> {}]
    /\ resp = [p \in Procs |-> NoResponse]

Init ==
    /\ InitTables
    /\ password = <<>>
    /\ password_error = NotCalled

\* a request is being served in slot p
Busy(p) == pc[p] \in {"commit", "refresh"}

\* a new request is served in the first slot that is not busy
Free(p) == ~Busy(p) /\ \A q \in Procs : q < p => Busy(q)

\* request r arrives in slot p; the answers of the requests that ended
\* before it are no longer kept
Arrive(p, r) ==
    req' = [q \in Procs |-> IF q = p THEN r
                            ELSE IF Busy(q) THEN req[q] ELSE NoRequest]

\* a slot other than p keeps its state, unless this step is an arrival in p
\* and the slot holds the answer of an ended request
Kept(p, q) == Busy(p) \/ Busy(q)

\* the handler returns or raises: the response is sent
Finish(p, r) ==
    /\ pc' = [q \in Procs |-> IF q = p THEN "done"
                              ELSE IF Kept(p, q) THEN pc[q] ELSE "idle"]
    /\ resp' = [q \in Procs |-> IF q = p THEN r
                                ELSE IF Kept(p, q) THEN resp[q] ELSE NoResponse]
    /\ loaded' = [loaded EXCEPT ![p] = {}]

\* the handler suspends at its next await, holding the ORM object obj
Suspend(p, at, obj) ==
    /\ pc' = [q \in Procs |-> IF q = p THEN at
                              ELSE IF Kept(p, q) THEN pc[q] ELSE "idle"]
    /\ resp' = [q \in Procs |-> IF q = p THEN NoResponse
                                ELSE IF Kept(p, q) THEN resp[q] ELSE NoResponse]
    /\ loaded' = [loaded EXCEPT ![p] = obj]

(***************************************************************************)
(* Table "users".                                                          *)
(***************************************************************************)
\* select(User).where(User.username == username)
SelectUserByUsername(username) == {u \in users : u.username = username}

\* the unique index on users.username rejects the insert
UsernameNotUnique_off(username) == FALSE

UsernameNotUnique(username) == \E u \in users : u.username = username

\* User(username=..., password=...) as inserted, with its auto-assigned id
NewUser_reused_id(user) ==
    [id |-> 1, username |-> user.username, password |-> user.password]

NewUser(user) ==
    [id |-> user_seq + 1, username |-> user.username, password |-> user.password]

\* UserOut
UserOut(u) == [id |-> u.id, username |-> u.username]

MsgTaken == "Username already taken."
MsgInvalidLogin == "Invalid username or password."
MsgLoginOk == "Login successful."

(***************************************************************************)
(* POST /register                                                          *)
(***************************************************************************)
\* register_user up to its commit: the pre-check query and the validation
register_user_no_precheck(p, user) ==
    /\ Free(p)
    /\ Arrive(p, Request("register", user, 0, NoStudent))
    /\ IF validate_password(user.password) # None
         THEN Finish(p, HTTPException(400, validate_password(user.password)))
         ELSE Suspend(p, "commit", {})
    /\ UNCHANGED <<userVars, studentVars, vpVars>>

register_user(p, user) ==
    /\ Free(p)
    /\ Arrive(p, Request("register", user, 0, NoStudent))
    /\ LET existing_user == SelectUserByUsername(user.username)
           password_error_ == validate_password(user.password)
       IN  IF existing_user # {}
             THEN Finish(p, HTTPException(400, MsgTaken))
             ELSE IF password_error_ # None
               THEN Finish(p, HTTPException(400, password_error_))
               ELSE Suspend(p, "commit", {})
    /\ UNCHANGED <<userVars, studentVars, vpVars>>

\* db.add(new_user); await db.commit()
register_user_commit(p) ==
    /\ pc[p] = "commit"
    /\ req[p].kind = "register"
    /\ IF UsernameNotUnique(req[p].user.username)
         THEN /\ Finish(p, InternalServerError)
              /\ UNCHANGED userVars
         ELSE /\ users' = users \cup {NewUser(req[p].user)}
              /\ user_seq' = user_seq + 1
              /\ Suspend(p, "refresh", {NewUser(req[p].user)})
    /\ UNCHANGED <<req, studentVars, vpVars>>

\* await db.refresh(new_user); return new_user
register_user_refresh(p) ==
    /\ pc[p] = "refresh"
    /\ req[p].kind = "register"
    /\ LET row == {u \in users : \E l \in loaded[p] : u.id = l.id}
       IN  IF row = {}
             THEN Finish(p, InternalServerError)
             ELSE Finish(p, Response(200, "", {UserOut(u) : u \in row}))
    /\ UNCHANGED <<req, userVars, studentVars, vpVars>>

(***************************************************************************)
(* POST /login                                                             *)
(***************************************************************************)
login_user_any_password(p, user) ==
    /\ Free(p)
    /\ Arrive(p, Request("login", user, 0, NoStudent))
    /\ LET db_user == SelectUserByUsername(user.username)
       IN  IF db_user = {}
             THEN Finish(p, HTTPException(401, MsgInvalidLogin))
             ELSE Finish(p, Response(200, MsgLoginOk, {}))
    /\ UNCHANGED <<userVars, studentVars, vpVars>>

login_user(p, user) ==
    /\ Free(p)
    /\ Arrive(p, Request("login", user, 0, NoStudent))
    /\ LET db_user == SelectUserByUsername(user.username)
       IN  IF db_user = {} \/ \E u \in db_user : u.password # user.password
             THEN Finish(p, HTTPException(401, MsgInvalidLogin))
             ELSE Finish(p, Response(200, MsgLoginOk, {}))
    /\ UNCHANGED <<userVars, studentVars, vpVars>>

NextUsers ==
    \E p \in Procs :
        \/ \E user \in UserCreate : register_user(p, user)
        \/ register_user_commit(p)
        \/ register_user_refresh(p)
        \/ \E user \in UserCreate : login_user(p, user)

SpecUsers == Init /\ [][NextUsers]_vars

(***************************************************************************)
(* Table "students".                                                       *)
(***************************************************************************)
\* select(Student).where(Student.email == email)
SelectStudentByEmail(email) == {s \in students : s.email = email}

\* select(Student).where(Student.id == student_id)
SelectStudentById(student_id) == {s \in students : s.id = student_id}

\* the unique index on students.email rejects a row written with this email
\* while another row (an id other than student_id) holds it
EmailNotUnique_off(email, student_id) == FALSE

EmailNotUnique(email, student_id) ==
    \E s \in students : s.email = email /\ s.id # student_id

\* a row of the table: the auto-assigned id and the six columns of the body
StudentRow(student_id, body) ==
    [id |-> student_id, name |-> body.name, age |-> body.age,
     address |-> body.address, email |-> body.email,
     subject |-> body.subject, semester |-> body.semester]

\* Student(**student.dict()) as inserted
NewStudent_reused_id(body) ==
    StudentRow(IF students = {} THEN 1 ELSE student_seq + 1, body)

NewStudent(body) == StudentRow(student_seq + 1, body)

\* the attributes of the loaded object that setattr really changed: the
\* unit of work writes only these columns
Changed(snapshot, body) == {f \in StudentFields : body[f] # snapshot[f]}

\* the row after UPDATE students SET <changed columns> WHERE id = ...
UpdatedRow_keeps_subject(current, changed, body) ==
    StudentRow(current.id,
               [f \in StudentFields |->
                   IF f \in changed /\ f # "subject" THEN body[f] ELSE current[f]])

UpdatedRow(current, changed, body) ==
    StudentRow(current.id,
               [f \in StudentFields |-> IF f \in changed THEN body[f] ELSE current[f]])

MsgEmailInUse == "Email already in use."
MsgNotFound == "Student not found"
MsgDeleted == "Student deleted successfully"

\* inserts that requests in flight may still make
PendingInserts ==
    Cardinality({q \in Procs : pc[q] = "commit" /\ req[q].kind = "add"})

(***************************************************************************)
(* POST /students                                                          *)
(***************************************************************************)
add_student(p, student) ==
    /\ Free(p)
    /\ student_seq + PendingInserts < MaxId
    /\ Arrive(p, Request("add", NoUser, 0, student))
    /\ IF ~StudentCreate(student)
         THEN Finish(p, RequestValidationError)
         ELSE LET existing == SelectStudentByEmail(student.email)
              IN  IF existing # {}
                    THEN Finish(p, HTTPException(400, MsgEmailInUse))
                    ELSE Suspend(p, "commit", {})
    /\ UNCHANGED <<userVars, studentVars, vpVars>>

\* db.add(new_student); await db.commit()
add_student_commit(p) ==
    /\ pc[p] = "commit"
    /\ req[p].kind = "add"
    /\ IF EmailNotUnique(req[p].body.email, 0)
         THEN /\ Finish(p, InternalServerError)
              /\ UNCHANGED studentVars
         ELSE /\ students' = students \cup {NewStudent(req[p].body)}
              /\ student_seq' = student_seq + 1
              /\ Suspend(p, "refresh", {NewStudent(req[p].body)})
    /\ UNCHANGED <<req, userVars, vpVars>>

\* await db.refresh(new_student); return new_student
add_student_refresh(p) ==
    /\ pc[p] = "refresh"
    /\ req[p].kind = "add"
    /\ LET row == UNION {SelectStudentById(l.id) : l \in loaded[p]}
       IN  IF row = {}
             THEN Finish(p, InternalServerError)
             ELSE Finish(p, Response(200, "", row))
    /\ UNCHANGED <<req, userVars, studentVars, vpVars>>

(***************************************************************************)
(* GET /students and GET /students/{student_id}                            *)
(***************************************************************************)
get_all_students(p) ==
    /\ Free(p)
    /\ Arrive(p, Request("list", NoUser, 0, NoStudent))
    /\ Finish(p, Response(200, "", students))
    /\ UNCHANGED <<userVars, studentVars, vpVars>>

get_student(p, student_id) ==
    /\ Free(p)
    /\ Arrive(p, Request("get", NoUser, student_id, NoStudent))
    /\ LET student == SelectStudentById(student_id)
       IN  IF student = {}
             THEN Finish(p, HTTPException(404, MsgNotFound))
             ELSE Finish(p, Response(200, "", student))
    /\ UNCHANGED <<userVars, studentVars, vpVars>>

(***************************************************************************)
(* PUT /students/{student_id}                                              *)
(***************************************************************************)
update_student(p, student_id, updated) ==
    /\ Free(p)
    /\ Arrive(p, Request("update", NoUser, student_id, updated))
    /\ IF ~StudentCreate(updated)
         THEN Finish(p, RequestValidationError)
         ELSE LET student == SelectStudentById(student_id)
              IN  IF student = {}
                    THEN Finish(p, HTTPException(404, MsgNotFound))
                    ELSE Suspend(p, "commit", student)
    /\ UNCHANGED <<userVars, studentVars, vpVars>>

\* setattr(student, key, value) for every key; await db.commit()
update_student_commit(p) ==
    /\ pc[p] = "commit"
    /\ req[p].kind = "update"
    /\ LET snapshot == CHOOSE s \in loaded[p] : TRUE
           changed == Changed(snapshot, req[p].body)
           current == SelectStudentById(req[p].student_id)
       IN  IF changed = {}
             THEN \* nothing is dirty: no UPDATE is sent
                  /\ Suspend(p, "refresh", loaded[p])
                  /\ UNCHANGED studentVars
             ELSE IF current = {}
               THEN \* the UPDATE matches no row: StaleDataError
                    /\ Finish(p, InternalServerError)
                    /\ UNCHANGED studentVars
               ELSE IF "email" \in changed
                       /\ EmailNotUnique(req[p].body.email, req[p].student_id)
                 THEN \* IntegrityError
                      /\ Finish(p, InternalServerError)
                      /\ UNCHANGED studentVars
                 ELSE /\ students' = (students \ current) \cup
                             {UpdatedRow(r, changed, req[p].body) : r \in current}
                      /\ UNCHANGED student_seq
                      /\ Suspend(p, "refresh", loaded[p])
    /\ UNCHANGED <<req, userVars, vpVars>>

\* await db.refresh(student); return student
update_student_refresh(p) ==
    /\ pc[p] = "refresh"
    /\ req[p].kind = "update"
    /\ LET row == SelectStudentById(req[p].student_id)
       IN  IF row = {}
             THEN Finish(p, InternalServerError)
             ELSE Finish(p, Response(200, "", row))
    /\ UNCHANGED <<req, userVars, studentVars, vpVars>>

(***************************************************************************)
(* DELETE /students/{student_id}                                           *)
(***************************************************************************)
delete_student(p, student_id) ==
    /\ Free(p)
    /\ Arrive(p, Request("delete", NoUser, student_id, NoStudent))
    /\ LET student == SelectStudentById(student_id)
       IN  IF student = {}
             THEN Finish(p, HTTPException(404, MsgNotFound))
             ELSE Suspend(p, "commit", student)
    /\ UNCHANGED <<userVars, studentVars, vpVars>>

\* await db.delete(student); await db.commit()
\* (a DELETE that matches no row is only warned about)
delete_student_commit(p) ==
    /\ pc[p] = "commit"
    /\ req[p].kind = "delete"
    /\ students' = students \ SelectStudentById(req[p].student_id)
    /\ Finish(p, Response(200, MsgDeleted, {}))
    /\ UNCHANGED <<req, student_seq, userVars, vpVars>>

NextStudents ==
    \E p \in Procs :
        \/ \E student \in StudentBodies : add_student(p, student)
        \/ add_student_commit(p)
        \/ add_student_refresh(p)
        \/ get_all_students(p)
        \/ \E student_id \in StudentIds : get_student(p, student_id)
        \/ \E student_id \in StudentIds, updated \in StudentBodies :
               update_student(p, student_id, updated)
        \/ update_student_commit(p)
        \/ update_student_refresh(p)
        \/ \E student_id \in StudentIds : delete_student(p, student_id)
        \/ delete_student_commit(p)

SpecStudents == Init /\ [][NextStudents]_vars

Next == NextUsers \/ NextStudents

Spec == Init /\ [][Next]_vars

(***************************************************************************)
(* validate_password on its own, over every candidate up to MaxPwLen.      *)
(***************************************************************************)
PwAlphabet == {"7", "K", "k", "#", "_"}

\* the candidate passwords of length n
Candidates(n) == [1..n -> PwAlphabet]

InitPassword ==
    /\ InitTables
    /\ \E n \in 0..MaxPwLen : password \in Candidates(n)
    /\ password_error = NotCalled

call_validate_password ==
    /\ password_error = NotCalled
    /\ password_error' = validate_password(password)
    /\ UNCHANGED <<userVars, studentVars, pc, req, loaded, resp, password>>

NextPassword == call_validate_password

SpecPassword == InitPassword /\ [][NextPassword]_vars

(***************************************************************************)
(* Properties of the account handlers (checked under SpecUsers).           *)
(***************************************************************************)
IsRegister(p) == req[p].kind = "register"
IsLogin(p) == req[p].kind = "login"
Answered(p) == pc[p] = "done"

\* the step is the arrival of a request of this kind in slot p: the handler
\* runs up to its first suspension or to its answer
Starts(p, kind) ==
    /\ ~Busy(p)
    /\ req'[p].kind = kind
    /\ \A q \in Procs \ {p} : Busy(q) => pc'[q] = pc[q] /\ resp'[q] = resp[q]
\* the step is the commit of the request of this kind in slot p
Commits(p, kind) == pc[p] = "commit" /\ req[p].kind = kind /\ pc'[p] # "commit"
\* the step is the refresh that ends the request of this kind in slot p
Refreshes(p, kind) == pc[p] = "refresh" /\ req[p].kind = kind /\ pc'[p] # "refresh"

UsernameTaken(username) == \E u \in users : u.username = username
AccountsOf(username) == {u \in users : u.username = username}

\* the five password rules, as the specification words them
RuleLength(pw) == Len(pw) >= 8
RuleDigit(pw) == \E i \in 1..Len(pw) : pw[i] \in Digit
RuleUpper(pw) == \E i \in 1..Len(pw) : pw[i] \in Upper
RuleLower(pw) == \E i \in 1..Len(pw) : pw[i] \in Lower
RuleSymbol(pw) == \E i \in 1..Len(pw) : pw[i] \notin (Digit \cup Upper \cup Lower)
AllRules(pw) ==
    RuleLength(pw) /\ RuleDigit(pw) /\ RuleUpper(pw) /\ RuleLower(pw) /\ RuleSymbol(pw)

\* C2 (as claimed): when two registrations of one username race, the
\* duplicate slips through: once one of them has succeeded, the other, which
\* also passed the pre-check (it was not answered 400), has its account
\* persisted too, so two accounts carry the username.
C2_DuplicateSlipsThrough ==
    \A p, q \in Procs :
        ( /\ p # q
          /\ IsRegister(p) /\ IsRegister(q)
          /\ req[p].user.username = req[q].user.username
          /\ Answered(q) /\ resp[q].status = 200
          /\ Answered(p) /\ resp[p].status # 400 )
        => Cardinality(AccountsOf(req[p].user.username)) >= 2

\* C2 (amended): the pre-check is not atomic with the insert, so two
\* registrations of one username can both pass it; but the unique index on
\* username rejects the second insert: no two accounts ever share a username,
\* and the request that lost the race is answered 500 with nothing persisted
\* for it (the username is held by exactly one account).
C2_NoDuplicateUsername ==
    /\ \A u, v \in users : u.username = v.username => u = v
    /\ \A p \in Procs :
          (Answered(p) /\ IsRegister(p) /\ resp[p].status = 500)
          => Cardinality(AccountsOf(req[p].user.username)) = 1

\* both requests passed the pre-check for one username; one persisted its
\* account, the other was rejected by the unique index
C2_Witness ==
    \E p, q \in Procs :
        /\ p # q
        /\ IsRegister(p) /\ IsRegister(q)
        /\ req[p].user.username = req[q].user.username
        /\ Answered(p) /\ resp[p].status = 500
        /\ Answered(q) /\ resp[q].status = 200

\* C3 (as claimed): every registration that found its username unused at the
\* pre-check (it was not answered "Username already taken.") and carries a
\* password satisfying all five rules succeeds.
C3_UnusedAtPreCheckSucceeds ==
    \A p \in Procs :
        ( /\ Answered(p) /\ IsRegister(p)
          /\ AllRules(req[p].user.password)
          /\ resp[p] # HTTPException(400, MsgTaken) )
        => resp[p].status = 200


\* C3 (amended): a registration whose password satisfies all five rules and
\* whose username is in no account when its insert is committed succeeds: it
\* persists exactly one new account, with that username and the password
\* verbatim, under an id no account had before; it returns that id and
\* username; and every account, once persisted, stays as it is.  (A request
\* that passed the pre-check but lost the race for its username is answered
\* 500 and persists nothing.)
C3_RegistrationSucceeds ==
    /\ [][\A p \in Procs :
            (Commits(p, "register") /\ ~UsernameTaken(req[p].user.username))
            => /\ AllRules(req[p].user.password)
               /\ \E id \in 1..(user_seq + 1) :
                     /\ \A u \in users : u.id # id
                     /\ users' = users \cup
                            {[id |-> id, username |-> req[p].user.username,
                              password |-> req[p].user.password]}
               /\ pc'[p] = "refresh"]_vars
    /\ [][\A p \in Procs :
            Refreshes(p, "register")
            => /\ resp'[p].status = 200
               /\ \E u \in users :
                     /\ u.username = req[p].user.username
                     /\ u.password = req[p].user.password
                     /\ resp'[p].body = {[id |-> u.id, username |-> u.username]}]_vars
    /\ [][\A p \in Procs :
            (Starts(p, "register") /\ AllRules(req'[p].user.password)
               /\ ~UsernameTaken(req'[p].user.username))
            => pc'[p] = "commit"]_vars
    /\ [][users \subseteq users']_vars
    /\ [](\A u, v \in users : u.id = v.id => u = v)

\* two registrations have succeeded, the later one with a new id
C3_Witness ==
    /\ Cardinality(users) = 2
    /\ \E p \in Procs :
          /\ Answered(p) /\ IsRegister(p) /\ resp[p].status = 200
          /\ resp[p].body = {[id |-> 2, username |-> req[p].user.username]}
          /\ \E u \in users : u.id = 2 /\ u.password = req[p].user.password

\* C4: once a username is registered, a later registration of it is answered
\* 400 "Username already taken." whatever its password, and the accounts
\* table is left as it was.
C4_SecondRegistrationConflicts ==
    [][\A p \in Procs :
          (Starts(p, "register") /\ UsernameTaken(req'[p].user.username))
          => /\ pc'[p] = "done"
             /\ resp'[p] = Response(400, MsgTaken, {})
             /\ users' = users /\ user_seq' = user_seq]_vars

\* a registered username was registered again with a different, valid
\* password and answered with the conflict
C4_Witness ==
    \E p \in Procs :
        /\ Answered(p) /\ IsRegister(p)
        /\ resp[p] = Response(400, MsgTaken, {})
        /\ AllRules(req[p].user.password)
        /\ \E u \in users : /\ u.username = req[p].user.username
                            /\ u.password # req[p].user.password

\* C5 (as claimed): a registration whose password has fewer than 8
\* characters is answered with the length message, whatever the accounts
\* table holds.
C5_ShortAlwaysLengthMessage ==
    \A p \in Procs :
        (Answered(p) /\ IsRegister(p) /\ Len(req[p].user.password) < 8)
        => resp[p] = Response(400, MsgLength, {})

\* C5 (amended): a registration whose password has fewer than 8 characters
\* always fails with status 400 and persists no account, whatever other
\* rules the password satisfies; the message is the length message when the
\* username is unused, and "Username already taken." when the username is
\* already registered (the pre-check runs before the validation).
C5_ShortPasswordRejected ==
    [][\A p \in Procs :
          (Starts(p, "register") /\ Len(req'[p].user.password) < 8)
          => /\ pc'[p] = "done"
             /\ resp'[p] = Response(400, IF UsernameTaken(req'[p].user.username)
                                           THEN MsgTaken ELSE MsgLength, {})
             /\ users' = users /\ user_seq' = user_seq]_vars

\* a short password that satisfies the four other rules was rejected with
\* the length message
C5_Witness ==
    \E p \in Procs :
        /\ Answered(p) /\ IsRegister(p)
        /\ resp[p] = Response(400, MsgLength, {})
        /\ LET pw == req[p].user.password
           IN  RuleDigit(pw) /\ RuleUpper(pw) /\ RuleLower(pw) /\ RuleSymbol(pw)

\* C9: login_user answers 200 "Login successful." exactly when some account
\* has the supplied username and exactly the supplied password; otherwise
\* (unknown username or wrong password) it answers 401 with the one message
\* "Invalid username or password."; it never changes the accounts table, and
\* accounts are never changed or removed, so the credentials of a successful
\* registration keep logging in.
C9_LoginExactMatch ==
    /\ [][\A p \in Procs :
            Starts(p, "login")
            => /\ pc'[p] = "done"
               /\ users' = users /\ user_seq' = user_seq
               /\ IF \E u \in users : /\ u.username = req'[p].user.username
                                      /\ u.password = req'[p].user.password
                    THEN resp'[p] = Response(200, MsgLoginOk, {})
                    ELSE resp'[p] = Response(401, MsgInvalidLogin, {})]_vars
    /\ [][\A u \in users : u \in users']_vars

\* a wrong password for a registered username was refused
C9_Witness ==
    \E p \in Procs :
        /\ Answered(p) /\ IsLogin(p)
        /\ resp[p] = Response(401, MsgInvalidLogin, {})
        /\ \E u \in users : /\ u.username = req[p].user.username
                            /\ u.password # req[p].user.password
                            /\ Len(u.password) = Len(req[p].user.password)

(***************************************************************************)
(* Properties of the student handlers (checked under SpecStudents).        *)
(***************************************************************************)
IsKind(p, kind) == req[p].kind = kind
Present(student_id) == \E s \in students : s.id = student_id
EmailHeldByOther(email, student_id) ==
    \E s \in students : s.email = email /\ s.id # student_id
InRange(body) ==
    /\ body.age >= 18 /\ body.age <= 30
    /\ body.semester >= 1 /\ body.semester <= 8

\* C1: in every reachable state no two student records share an email,
\* whatever add_student, update_student and delete_student requests ran and
\* however they interleaved.
C1_EmailsUnique ==
    \A s, r \in students : s.email = r.email => s = r

\* an update_student tried to give a record the email of a different
\* existing record (and was refused by the unique index)
C1_Witness ==
    \E p \in Procs :
        /\ Answered(p) /\ IsKind(p, "update")
        /\ resp[p].status = 500
        /\ \E s \in students : s.id = req[p].student_id /\ s.email # req[p].body.email
        /\ EmailHeldByOther(req[p].body.email, req[p].student_id)

\* C6: a student id is absent or present (one row at most); an id that was
\* assigned and is absent never becomes present again; and get_student,
\* update_student and delete_student of an absent id are answered 404
\* "Student not found" and change nothing.
C6_DeletedStaysAbsent ==
    /\ [](\A s, r \in students : s.id = r.id => s = r)
    /\ [][\A i \in 1..student_seq : ~Present(i) => ~Present(i)']_vars
    /\ [][\A p \in Procs :
            ( /\ Starts(p, "get") \/ Starts(p, "delete")
              /\ ~Present(req'[p].student_id) )
            => /\ pc'[p] = "done"
               /\ resp'[p] = Response(404, MsgNotFound, {})
               /\ students' = students /\ student_seq' = student_seq]_vars
    /\ [][\A p \in Procs :
            ( /\ Starts(p, "update")
              /\ ~Present(req'[p].student_id) /\ InRange(req'[p].body) )
            => /\ pc'[p] = "done"
               /\ resp'[p] = Response(404, MsgNotFound, {})
               /\ students' = students /\ student_seq' = student_seq]_vars

\* after the delete of an id succeeded and a later student was created, a
\* second delete of the id was answered 404
C6_Witness ==
    \E p \in Procs, i \in 1..student_seq :
        /\ ~Present(i)
        /\ \E s \in students : s.id > i
        /\ Answered(p) /\ IsKind(p, "delete") /\ req[p].student_id = i
        /\ resp[p] = Response(404, MsgNotFound, {})

Undisturbed(p) == loaded[p] = {s \in students : s.id = req[p].student_id}

C8_OutOfRangeAnswered400 ==
    \A p \in Procs :
        (Answered(p) /\ IsKind(p, "add") /\ ~InRange(req[p].body))
        => resp[p].status = 400

\* C8 (amended): an add_student whose age is outside 18..30 or whose semester
\* is outside 1..8 is rejected with status 422 (the framework's answer to a
\* body that fails the request schema) before the handler runs, so without
\* any database read or write: the answer does not depend on the table and
\* the table is unchanged; hence every persisted record, after any add_student
\* and update_student requests, has age in 18..30 and semester in 1..8.
C8_OutOfRangeRejected ==
    /\ [][\A p \in Procs :
            (Starts(p, "add") /\ ~InRange(req'[p].body))
            => /\ pc'[p] = "done"
               /\ resp'[p].status = 422 /\ resp'[p].body = {}
               /\ students' = students /\ student_seq' = student_seq]_vars
    /\ [](\A s \in students : InRange(s))

\* an add_student with age 17 was rejected with 422 although its email is
\* that of an existing record (the pre-check query was never reached)
C8_Witness ==
    \E p \in Procs :
        /\ Answered(p) /\ IsKind(p, "add")
        /\ req[p].body.age = 17
        /\ resp[p].status = 422
        /\ \E s \in students : s.email = req[p].body.email

(***************************************************************************)
(* Properties of validate_password (checked under SpecPassword).           *)
(***************************************************************************)
\* the message of the earliest violated rule, or ok when none is violated
FirstViolation(pw, ok) ==
    CASE ~RuleLength(pw) -> "Password must be at least 8 characters long."
      [] RuleLength(pw) /\ ~RuleDigit(pw) ->
             "Password must contain at least one digit."
      [] RuleLength(pw) /\ RuleDigit(pw) /\ ~RuleUpper(pw) ->
             "Password must contain at least one uppercase letter."
      [] RuleLength(pw) /\ RuleDigit(pw) /\ RuleUpper(pw) /\ ~RuleLower(pw) ->
             "Password must contain at least one lowercase letter."
      [] RuleLength(pw) /\ RuleDigit(pw) /\ RuleUpper(pw) /\ RuleLower(pw)
            /\ ~RuleSymbol(pw) ->
             "Password must contain at least one special character."
      [] OTHER -> ok

\* C10 (as claimed): validate_password returns the message of the first
\* violated rule, and "valid" when no rule is violated.
C10_ReturnsValid ==
    password_error # NotCalled => password_error = FirstViolation(password, "valid")

\* C10 (amended): validate_password returns the message of the first violated
\* rule in the order length, digit, uppercase, lowercase, symbol, and only
\* that message when several rules are violated; it returns None (no
\* message), not "valid", when no rule is violated.
C10_FirstViolatedRule ==
    password_error # NotCalled => password_error = FirstViolation(password, None)

\* a password of 8 characters that lacks a digit, an uppercase letter and a
\* symbol was answered with the digit message alone
C10_Witness ==
    /\ password_error = "Password must contain at least one digit."
    /\ Len(password) = 8
    /\ ~RuleUpper(password) /\ ~RuleSymbol(password) /\ RuleLower(password)

====
